---- MODULE Spec2Model ----
(***************************************************************************)
(* Board state engine of the slot game: the grid functions of              *)
(* SlotConfig.ts (the SlotUtility section), the board controller of        *)
(* SlotBoard.ts, the piece lock/animation protocol of SlotPiece.ts and the *)
(* round processor of SlotProcess.ts.                                      *)
(*                                                                         *)
(* Rows and columns are 0-based as in the source: a grid is a function     *)
(* 0..rows-1 -> (0..columns-1 -> type code), 0 being the empty cell.       *)
(***************************************************************************)
EXTENDS Integers, Sequences, FiniteSets, TLC

(* ----------------------------- bounds ---------------------------------- *)
\* config.rows / config.columns of the board under analysis
NumRows == 2
NumColumns == 3
\* number of block names, i.e. commonTypes = 1..NumTypes
NumTypes == 2
\* the boards processing starts from: StaggeredGrid, which has no match,
\* with at most MaxVaried cells given another value (empty or a type)
MaxVaried == 1
\* round ceiling: step 1 of a round is not run once round = MaxRound
MaxRound == 2
\* number of accepted start() calls that are followed
MaxSession == 2

\* the grid functions on their own: grids of 1 .. GridSide rows and columns
\* and at most MaxCells cells, filter lists of at most MaxFilter positions,
\* match sizes 1 .. MaxMatchSize, type lists of 1 .. MaxTypeList codes
GridSide == 3
MaxCells == 6
MaxFilter == 2
MaxMatchSize == 3
MaxTypeList == 2
\* the board setup on its own: configurations of at most MaxSetupCells cells
MaxSetupCells == 3

(* ------------------------- program constants --------------------------- *)
\* matchSize = 3, default parameter of slotGetMatches
DefaultMatchSize == 3
\* SlotStats.registerMatch adds 100 to the balance
MatchReward == 100

\* the balance MaxSession sessions of MaxRound rounds can reach
MaxBalance == MaxSession * MaxRound * MatchReward

\* the value `undefined` of the source (out-of-bounds lookup, initial lastType)
Undefined == -1

RowIdx == 0 .. (NumRows - 1)
ColIdx == 0 .. (NumColumns - 1)
commonTypes == 1 .. NumTypes

Pos(r, c) == [row |-> r, column |-> c]

\* Loop variables: CHOOSE out \in {e(v) : v \in {x}} : TRUE below is e(x) with
\* x evaluated once, the way a loop of the source reads a variable it holds.

\* grid.length and grid[0].length
GridRows(g) == Cardinality(DOMAIN g)
GridColumns(g) == Cardinality(DOMAIN g[0])

(* ------------------------- grid functions ------------------------------ *)
\* grid?.[position.row]?.[position.column]
slotGetPieceType(g, position) ==
  IF position.row \in DOMAIN g /\ position.column \in DOMAIN g[position.row]
    THEN g[position.row][position.column]
    ELSE Undefined

slotSetPieceType(g, position, type) ==
  [g EXCEPT ![position.row][position.column] = type]

match3ComparePositions(a, b) == a.row = b.row /\ a.column = b.column

slotIsValidPosition(g, position) ==
  /\ position.row >= 0 /\ position.row < GridRows(g)
  /\ position.column >= 0 /\ position.column < GridColumns(g)

\* match3SwapPieces reading typeA after it has overwritten positionA
match3SwapPiecesNoTemp(g, positionA, positionB) ==
  LET typeA == slotGetPieceType(g, positionA)
      typeB == slotGetPieceType(g, positionB)
  IN IF typeA # Undefined /\ typeB # Undefined
       THEN slotSetPieceType(slotSetPieceType(g, positionA, typeB), positionB, typeB)
       ELSE g

match3SwapPieces(g, positionA, positionB) ==
  LET typeA == slotGetPieceType(g, positionA)
      typeB == slotGetPieceType(g, positionB)
  IN IF typeA # Undefined /\ typeB # Undefined
       THEN slotSetPieceType(slotSetPieceType(g, positionA, typeB), positionB, typeA)
       ELSE g

\* one pass of the inner loop body of slotGetMatchesByOrientation; st carries
\* the loop variables matches, lastType and currentMatch
ScanCell(g, matchSize, orientation, p, s, st) ==
  LET row == IF orientation = "horizontal" THEN p ELSE s
      column == IF orientation = "horizontal" THEN s ELSE p
      type == g[row][column]
  IN IF type # 0 /\ type = st.lastType
       THEN [st EXCEPT !.currentMatch = Append(@, Pos(row, column))]
       ELSE [matches |-> IF Len(st.currentMatch) >= matchSize
                           THEN Append(st.matches, st.currentMatch)
                           ELSE st.matches,
             currentMatch |-> <<Pos(row, column)>>,
             lastType |-> type]

RECURSIVE ScanSecondary(_, _, _, _, _, _, _)
ScanSecondary(g, matchSize, orientation, p, s, secondary, st0) ==
  CHOOSE out \in {(
    IF s >= secondary THEN st
    ELSE ScanSecondary(g, matchSize, orientation, p, s + 1, secondary,
                       ScanCell(g, matchSize, orientation, p, s, st))) : st \in {st0}} : TRUE

RECURSIVE ScanPrimary(_, _, _, _, _, _, _)
ScanPrimary(g, matchSize, orientation, p, primary, secondary, matches) ==
  IF p >= primary THEN matches
  ELSE CHOOSE out \in {(
              ScanPrimary(g, matchSize, orientation, p + 1, primary, secondary,
                          IF Len(st.currentMatch) >= matchSize
                            THEN Append(st.matches, st.currentMatch)
                            ELSE st.matches)) : st \in {ScanSecondary(g, matchSize, orientation, p, 0, secondary,
              [matches |-> matches, lastType |-> Undefined, currentMatch |-> <<>>])}} : TRUE

slotGetMatchesByOrientation(g, matchSize, orientation) ==
  LET rows == GridRows(g)
      columns == GridColumns(g)
      primary == IF orientation = "horizontal" THEN rows ELSE columns
      secondary == IF orientation = "horizontal" THEN columns ELSE rows
  IN ScanPrimary(g, matchSize, orientation, 0, primary, secondary, <<>>)

\* an optional argument: omitted, or given with a value
Omitted == <<>>
Given(x) == <<x>>

\* the inner loops of slotGetMatches with `valid = same` for the assignment
RECURSIVE FilterScanLastWins(_, _, _, _, _)
FilterScanLastWins(match, filter, i, j, valid) ==
  IF i > Len(match) THEN valid
  ELSE IF j > Len(filter) THEN FilterScanLastWins(match, filter, i + 1, 1, valid)
  ELSE FilterScanLastWins(match, filter, i, j + 1,
                          match3ComparePositions(match[i], filter[j]))

\* the two inner for loops of slotGetMatches: position i of the match against
\* position j of the filter list
RECURSIVE FilterScan(_, _, _, _, _)
FilterScan(match, filter, i, j, valid) ==
  IF i > Len(match) THEN valid
  ELSE IF j > Len(filter) THEN FilterScan(match, filter, i + 1, 1, valid)
  ELSE FilterScan(match, filter, i, j + 1,
                  IF match3ComparePositions(match[i], filter[j]) THEN TRUE ELSE valid)

\* the outer for loop of slotGetMatches over allMatches
RECURSIVE FilterMatches(_, _, _, _)
FilterMatches(allMatches, filter, k, filteredMatches) ==
  IF k > Len(allMatches) THEN filteredMatches
  ELSE FilterMatches(allMatches, filter, k + 1,
                     IF FilterScan(allMatches[k], filter, 1, 1, FALSE)
                       THEN Append(filteredMatches, allMatches[k])
                       ELSE filteredMatches)

\* filter: Omitted, or Given(list of positions)
slotGetMatches(g, filter, matchSize) ==
  LET allMatches == slotGetMatchesByOrientation(g, matchSize, "horizontal")
  IN IF filter = Omitted THEN allMatches
     ELSE FilterMatches(allMatches, filter[1], 1, <<>>)

\* row-major scan order of the cells of a grid
ScanOrder(g) ==
  LET columns == GridColumns(g)
  IN [k \in 1 .. (GridRows(g) * columns) |-> Pos((k - 1) \div columns, (k - 1) % columns)]

Reverse(s) == [i \in 1 .. Len(s) |-> s[Len(s) + 1 - i]]

slotGetEmptyPositions(g) ==
  LET isEmpty(position) == g[position.row][position.column] = 0
  IN SelectSeq(ScanOrder(g), isEmpty)

\* slotGetRandomType rounding the random index instead of flooring it: the
\* index list.length, with no element, can be drawn
slotGetRandomTypeRounds(types) == {types[i] : i \in 1 .. Len(types)} \cup {Undefined}

\* the values slotGetRandomType(types) can return: list[index] for an index
\* Math.floor(Math.random() * list.length) of 0 .. list.length - 1
slotGetRandomType(types) == {types[i] : i \in 1 .. Len(types)}

\* the grids match3CreateGrid(rows, columns, types) can return
match3CreateGrid(rows, columns, types) ==
  [0 .. (rows - 1) -> [0 .. (columns - 1) -> slotGetRandomType(types)]]

\* slotFillUp with its row loop ending one row early
slotFillUpSkipsLastRow(g, tempGrid) ==
  LET filled(r, c) == g[r][c] = 0 /\ r < GridRows(g) - 1
      isFilled(position) == filled(position.row, position.column)
  IN [grid |-> [r \in DOMAIN g |-> [c \in DOMAIN g[r] |->
                  IF filled(r, c) THEN tempGrid[r][c] ELSE g[r][c]]],
      newPositions |-> Reverse(SelectSeq(ScanOrder(g), isFilled))]

\* slotFillUp returning newPositions as pushed, without reverse()
slotFillUpNoReverse(g, tempGrid) ==
  [grid |-> [r \in DOMAIN g |-> [c \in DOMAIN g[r] |->
               IF g[r][c] = 0 THEN tempGrid[r][c] ELSE g[r][c]]],
   newPositions |-> slotGetEmptyPositions(g)]

\* tempGrid is the grid match3CreateGrid draws at random inside slotFillUp
slotFillUp(g, tempGrid) ==
  [grid |-> [r \in DOMAIN g |-> [c \in DOMAIN g[r] |->
               IF g[r][c] = 0 THEN tempGrid[r][c] ELSE g[r][c]]],
   newPositions |-> Reverse(slotGetEmptyPositions(g))]

\* slotApplyGravity with an `if` for its `while`: a cell falls one row
FallLoopOneStep(g0, position, belowPosition, hasChanged) ==
  IF slotIsValidPosition(g0, belowPosition) /\ slotGetPieceType(g0, belowPosition) = 0
    THEN [grid |-> match3SwapPieces(g0, position, belowPosition),
          position |-> belowPosition, hasChanged |-> TRUE]
    ELSE [grid |-> g0, position |-> position, hasChanged |-> hasChanged]

\* the while loop of slotApplyGravity
RECURSIVE FallLoop(_, _, _, _)
FallLoop(g0, position, belowPosition, hasChanged) ==
  CHOOSE out \in {(
    IF slotIsValidPosition(g, belowPosition) /\ slotGetPieceType(g, belowPosition) = 0
      THEN FallLoop(match3SwapPieces(g, position, belowPosition), belowPosition,
                    Pos(belowPosition.row + 1, belowPosition.column), TRUE)
      ELSE [grid |-> g, position |-> position, hasChanged |-> hasChanged]) : g \in {g0}} : TRUE

\* body of the two for loops of slotApplyGravity for the cell (r, c)
GravityCell(acc, r, c) ==
  LET belowPosition == Pos(r + 1, c)
  IN IF ~slotIsValidPosition(acc.grid, belowPosition) THEN acc
     ELSE CHOOSE out \in {(
            [grid |-> res.grid,
             changes |-> IF res.hasChanged
                           THEN Append(acc.changes, <<Pos(r, c), res.position>>)
                           ELSE acc.changes]) : res \in {FallLoop(acc.grid, Pos(r, c), belowPosition, FALSE)}} : TRUE

RECURSIVE GravityLoop(_, _, _)
GravityLoop(acc0, r, c) ==
  CHOOSE out \in {(
    IF r < 0 THEN acc
    ELSE IF c >= GridColumns(acc.grid) THEN GravityLoop(acc, r - 1, 0)
    ELSE GravityLoop(GravityCell(acc, r, c), r, c + 1)) : acc \in {acc0}} : TRUE

slotApplyGravity(g) ==
  GravityLoop([grid |-> g, changes |-> <<>>], GridRows(g) - 1, 0)

(* --------------------------- board pieces ------------------------------ *)
\* A piece of SlotBoard.pieces: its grid binding, its lock and the tweens it
\* is awaiting.  jump: the fade-out tween of animateJump is pending.
\* fall: "none", or who started the pending position tween of animateFall:
\* "gravity" (SlotProcess.applyGravity, not awaited by its step) or "refill"
\* (SlotProcess.refillGrid, awaited by its step).
NewPiece(position, pieceType) ==
  [row |-> position.row, column |-> position.column, type |-> pieceType,
   locked |-> FALSE, jump |-> FALSE, fall |-> "none"]

\* index in ps of the first piece bound to position, 0 for null
getPieceByPosition(ps, position) ==
  LET hits == {i \in 1 .. Len(ps) :
                 ps[i].row = position.row /\ ps[i].column = position.column}
  IN IF hits = {} THEN 0 ELSE CHOOSE i \in hits : \A j \in hits : i <= j

\* piece.setup(...) ends with unlock(); the piece is pushed on the list
createPiece(ps, position, pieceType) == Append(ps, NewPiece(position, pieceType))

\* pieces.splice(pieces.indexOf(piece), 1)
disposePiece(ps, i) ==
  [k \in 1 .. (Len(ps) - 1) |-> IF k < i THEN ps[k] ELSE ps[k + 1]]

\* synchronous part of animateJump / animateFall: lock, start the tween
animateJump(piece) == [piece EXCEPT !.locked = TRUE, !.jump = TRUE]
animateFall(piece, by) == [piece EXCEPT !.locked = TRUE, !.fall = by]

\* synchronous part of jumpPiece: nothing without a type and a piece
jumpPiece(g, ps, position) ==
  LET i == getPieceByPosition(ps, position)
      type == slotGetPieceType(g, position)
  IN IF type = Undefined \/ type = 0 \/ i = 0 THEN ps
     ELSE [ps EXCEPT ![i] = animateJump(@)]

RECURSIVE jumpPieces(_, _, _, _)
jumpPieces(g, ps0, positions, k) ==
  CHOOSE out \in {(
    IF k > Len(positions) THEN ps
    ELSE jumpPieces(g, jumpPiece(g, ps, positions[k]), positions, k + 1)) : ps \in {ps0}} : TRUE

\* the pieces of the board setup leaves for grid g: one per cell, scan order
RECURSIVE SetupPieces(_, _, _, _)
SetupPieces(g, order, k, ps0) ==
  CHOOSE out \in {(
    IF k > Len(order) THEN ps
    ELSE SetupPieces(g, order, k + 1,
           IF slotGetPieceType(g, order[k]) = 0 THEN ps
           ELSE createPiece(ps, order[k], slotGetPieceType(g, order[k])))) : ps \in {ps0}} : TRUE

(* ------------------------------ state ---------------------------------- *)
VARIABLES
  grid,        \* SlotBoard.grid
  pieces,      \* SlotBoard.pieces
  playing,     \* Slot.interactiveChildren, read by isPlaying()
  processing,  \* SlotProcess.processing
  round,       \* SlotProcess.round
  balance,     \* SlotStats.data.balance
  queue,       \* AsyncQueue: the steps not yet begun
  paused,      \* AsyncQueue: paused
  running,     \* AsyncQueue: the steps begun and not yet returned
  emitted,     \* notifications fired by the last operation, in order
  sess,        \* history: number of accepted start() calls
  enq,         \* history: number of runProcessRound calls of this session
  open,        \* history: process-start fired, neither complete nor reset since
  cancelled,   \* history: the session whose queue was last cleared
  lastStep,    \* history: the step that began last
  call,        \* history: the move request or the grid function call the
               \* last operation was, NoCall for any other operation
  clearing     \* history: the positions that belonged to a match when the
               \* clear step that began last began

vars == <<grid, pieces, playing, processing, round, balance, queue, paused,
          running, emitted, sess, enq, open, cancelled, lastStep, call, clearing>>

board == <<grid, pieces>>
history == <<sess, enq, open, cancelled, lastStep>>

NoStep == [kind |-> 0, rnd |-> 0, sess |-> 0]
NoCall == [fn |-> "none"]
Step(k, n, s) == [kind |-> k, rnd |-> n, sess |-> s]

ProcessStart == [type |-> "process-start"]
ProcessComplete == [type |-> "process-complete"]
Match(matches, combo) == [type |-> "match", matches |-> matches, combo |-> combo]

\* the grids match3CreateGrid draws for the board from SlotBoard.commonTypes
FullGrids == match3CreateGrid(NumRows, NumColumns, [i \in 1 .. NumTypes |-> i])
\* a full grid match3CreateGrid can draw, its two first types alternating
StaggeredGrid == [r \in RowIdx |-> [c \in ColIdx |-> 1 + ((r + c) % 2)]]
VariedCells == {cells \in SUBSET (RowIdx \X ColIdx) : Cardinality(cells) <= MaxVaried}
InitGrids ==
  UNION {{[r \in RowIdx |-> [c \in ColIdx |->
             IF <<r, c>> \in cells THEN v[<<r, c>>] ELSE StaggeredGrid[r][c]]] :
          v \in [cells -> 0 .. NumTypes]} : cells \in VariedCells}

\* The processor and the queue as constructed; the board as setup leaves it
\* (one unlocked piece per cell, mirroring the grid) on a grid of the public
\* field SlotBoard.grid, drawn from InitGrids (empty cells included).
Init ==
  /\ grid \in InitGrids
  /\ pieces = SetupPieces(grid, ScanOrder(grid), 1, <<>>)
  /\ playing = TRUE
  /\ processing = FALSE
  /\ round = 0
  /\ balance = 0
  /\ queue = <<>>
  /\ paused = FALSE
  /\ running = {}
  /\ emitted = <<>>
  /\ sess = 0
  /\ enq = 0
  /\ open = FALSE
  /\ cancelled = 0
  /\ lastStep = NoStep
  /\ call = NoCall
  /\ clearing = {}

(* ---------------------------- AsyncQueue ------------------------------- *)
QueueAdd(q, step) == Append(q, step)
QueueClear(q) == <<>>
\* the single consumer takes the next step when it is not paused and the
\* step before has returned
QueueReadyNoWait == ~paused /\ queue # <<>>
QueueReady == ~paused /\ running = {} /\ queue # <<>>

(* -------------------------- round processor ---------------------------- *)
\* the five queue.add calls of runProcessRound, for round n of session s
runProcessRound(q, n, s) ==
  QueueAdd(QueueAdd(QueueAdd(QueueAdd(QueueAdd(q,
    Step(1, n, s)), Step(2, n, s)), Step(3, n, s)), Step(4, n, s)), Step(5, n, s))

\* start() without the isPlaying() test
startIgnoresPlaying ==
  IF processing
    THEN /\ emitted' = <<>>
         /\ UNCHANGED <<board, playing, processing, round, balance, queue,
                        paused, running, history>>
         /\ call' = NoCall
         /\ clearing' = clearing
    ELSE /\ sess < MaxSession
         /\ processing' = TRUE
         /\ round' = 0
         /\ emitted' = <<ProcessStart>>
         /\ queue' = runProcessRound(queue, 1, sess + 1)
         /\ sess' = sess + 1
         /\ enq' = 1
         /\ open' = TRUE
         /\ UNCHANGED <<board, playing, balance, paused, running, cancelled, lastStep>>
         /\ call' = NoCall
         /\ clearing' = clearing

\* start() without the processing test
startWhileProcessing ==
  IF ~playing
    THEN /\ emitted' = <<>>
         /\ UNCHANGED <<board, playing, processing, round, balance, queue,
                        paused, running, history>>
         /\ call' = NoCall
         /\ clearing' = clearing
    ELSE /\ sess < MaxSession
         /\ processing' = TRUE
         /\ round' = 0
         /\ emitted' = <<ProcessStart>>
         /\ queue' = runProcessRound(queue, 1, sess + 1)
         /\ sess' = sess + 1
         /\ enq' = 1
         /\ open' = TRUE
         /\ UNCHANGED <<board, playing, balance, paused, running, cancelled, lastStep>>
         /\ call' = NoCall
         /\ clearing' = clearing

\* the body of start(), whoever calls it
startProcess ==
  IF processing \/ ~playing
    THEN /\ emitted' = <<>>
         /\ UNCHANGED <<board, playing, processing, round, balance, queue,
                        paused, running, history, clearing>>
    ELSE /\ sess < MaxSession
         /\ processing' = TRUE
         /\ round' = 0
         /\ emitted' = <<ProcessStart>>
         /\ queue' = runProcessRound(queue, 1, sess + 1)
         /\ sess' = sess + 1
         /\ enq' = 1
         /\ open' = TRUE
         /\ UNCHANGED <<board, playing, balance, paused, running, cancelled,
                        lastStep, clearing>>

\* start() called by the host
start ==
  /\ startProcess
  /\ call' = NoCall

\* stop() without queue.clear()
stopEffectNoClear ==
  IF ~processing
    THEN /\ emitted' = <<>>
         /\ UNCHANGED <<processing, queue, open, cancelled>>
    ELSE /\ processing' = FALSE
         /\ queue' = queue
         /\ emitted' = <<ProcessComplete>>
         /\ open' = FALSE
         /\ cancelled' = sess

\* the effect of stop() on the processor, shared with the checkpoint
stopEffect ==
  IF ~processing
    THEN /\ emitted' = <<>>
         /\ UNCHANGED <<processing, queue, open, cancelled>>
    ELSE /\ processing' = FALSE
         /\ queue' = QueueClear(queue)
         /\ emitted' = <<ProcessComplete>>
         /\ open' = FALSE
         /\ cancelled' = sess

\* stop() without the processing test
stopUnguarded ==
  /\ processing' = FALSE
  /\ queue' = QueueClear(queue)
  /\ emitted' = <<ProcessComplete>>
  /\ open' = FALSE
  /\ cancelled' = sess
  /\ UNCHANGED <<board, playing, round, balance, paused, running, sess, enq, lastStep>>
  /\ call' = NoCall
  /\ clearing' = clearing

stop ==
  /\ stopEffect
  /\ UNCHANGED <<board, playing, round, balance, paused, running, sess, enq, lastStep>>
  /\ call' = NoCall
  /\ clearing' = clearing

\* reset() without queue.clear()
resetNoClear ==
  /\ processing' = FALSE
  /\ round' = 0
  /\ queue' = queue
  /\ emitted' = <<>>
  /\ open' = FALSE
  /\ cancelled' = sess
  /\ UNCHANGED <<board, playing, balance, paused, running, sess, enq, lastStep>>
  /\ call' = NoCall
  /\ clearing' = clearing

reset ==
  /\ processing' = FALSE
  /\ round' = 0
  /\ queue' = QueueClear(queue)
  /\ emitted' = <<>>
  /\ open' = FALSE
  /\ cancelled' = sess
  /\ UNCHANGED <<board, playing, balance, paused, running, sess, enq, lastStep>>
  /\ call' = NoCall
  /\ clearing' = clearing

\* pause() that also drops the queued steps
pauseClears ==
  /\ paused' = TRUE
  /\ queue' = QueueClear(queue)
  /\ emitted' = <<>>
  /\ UNCHANGED <<board, playing, processing, round, balance, running, history>>
  /\ call' = NoCall
  /\ clearing' = clearing

pause ==
  /\ paused' = TRUE
  /\ emitted' = <<>>
  /\ UNCHANGED <<board, playing, processing, round, balance, queue, running, history>>
  /\ call' = NoCall
  /\ clearing' = clearing

resume ==
  /\ paused' = FALSE
  /\ emitted' = <<>>
  /\ UNCHANGED <<board, playing, processing, round, balance, queue, running, history>>
  /\ call' = NoCall
  /\ clearing' = clearing

\* the host switches Slot.interactiveChildren
setPlaying ==
  /\ playing' = ~playing
  /\ emitted' = <<>>
  /\ UNCHANGED <<board, processing, round, balance, queue, paused, running, history>>
  /\ call' = NoCall
  /\ clearing' = clearing

\* the positions a move request names: the cells of the board and the cells
\* of the row below it, which are out of bounds
SpinPositions == {Pos(r, c) : r \in 0 .. NumRows, c \in ColIdx}

\* the guards of actionSpin in the order of the code: the first that returns,
\* "none" when the request passes them all
SpinRefusal(from) ==
  LET pieceA == getPieceByPosition(pieces, from)
      typeA == slotGetPieceType(grid, from)
  IN IF ~playing THEN "not-playing"
     ELSE IF pieceA = 0 THEN "no-piece"
     ELSE IF pieces[pieceA].locked THEN "locked"
     ELSE IF typeA = Undefined \/ typeA = 0 THEN "no-type"
     ELSE "none"

\* the record of a move request: the guard that refused it, "none" when it
\* passed them all
SpinRefused(why) == [fn |-> "actionSpin", refused |-> why]

\* actionSpin without the isLocked() test on the piece
actionSpinLockedPasses(from, to) ==
  /\ call' = SpinRefused(SpinRefusal(from))
  /\ IF SpinRefusal(from) \notin {"none", "locked"}
       THEN /\ emitted' = <<>>
            /\ UNCHANGED <<board, playing, processing, round, balance, queue,
                           paused, running, history, clearing>>
       ELSE startProcess

\* actionSpin that swaps the two cells and starts the processor only when the
\* swap makes a match
actionSpinValidates(from, to) ==
  /\ call' = SpinRefused(SpinRefusal(from))
  /\ IF \/ SpinRefusal(from) # "none"
        \/ Len(slotGetMatches(match3SwapPieces(grid, from, to), Omitted,
                               DefaultMatchSize)) = 0
       THEN /\ emitted' = <<>>
            /\ UNCHANGED <<board, playing, processing, round, balance, queue,
                           paused, running, history, clearing>>
       ELSE startProcess

\* actionSpin(from, to): dropPiece only logs, and its promise is resolved when
\* it returns, so that a request that passes the guards is a call of start()
actionSpin(from, to) ==
  /\ call' = SpinRefused(SpinRefusal(from))
  /\ IF SpinRefusal(from) # "none"
       THEN /\ emitted' = <<>>
            /\ UNCHANGED <<board, playing, processing, round, balance, queue,
                           paused, running, history, clearing>>
       ELSE startProcess

\* a move request of the host; `to` is only logged, it is drawn next to `from`
SpinRequest ==
  \E from \in SpinPositions : \E to \in {Pos(from.row, from.column + 1)} :
     actionSpin(from, to)

\* updateStats for the round counter value combo: the new balance and the
\* notifications fired
updateStats(g, combo, bal) ==
  LET matches == slotGetMatches(g, Omitted, DefaultMatchSize)
  IN IF Len(matches) = 0
       THEN [balance |-> bal, emitted |-> <<>>]
       ELSE [balance |-> bal + MatchReward, emitted |-> <<Match(matches, combo)>>]

\* the positions of the matches processRegularMatches finds in g
MatchedPositions(g) ==
  LET matches == slotGetMatches(g, Omitted, DefaultMatchSize)
  IN UNION {{matches[k][i] : i \in 1 .. Len(matches[k])} : k \in 1 .. Len(matches)}

\* synchronous part of processRegularMatches: one jumpPieces per match
RECURSIVE processRegularMatches(_, _, _, _)
processRegularMatches(g, ps0, matches, k) ==
  CHOOSE out \in {(
    IF k > Len(matches) THEN ps
    ELSE processRegularMatches(g, jumpPieces(g, ps, matches[k], 1), matches, k + 1)) : ps \in {ps0}} : TRUE

\* applyGravity starting the fall without binding the piece to its new cell
RECURSIVE applyGravityKeepsBinding(_, _, _)
applyGravityKeepsBinding(ps0, changes, k) ==
  CHOOSE out \in {(
    IF k > Len(changes) THEN ps
    ELSE LET from == changes[k][1]
             i == getPieceByPosition(ps, from)
         IN applyGravityKeepsBinding(
              IF i = 0 THEN ps
              ELSE [ps EXCEPT ![i] = animateFall(@, "gravity")],
              changes, k + 1)) : ps \in {ps0}} : TRUE

\* the for loop of SlotProcess.applyGravity over the change list
RECURSIVE applyGravity(_, _, _)
applyGravity(ps0, changes, k) ==
  CHOOSE out \in {(
    IF k > Len(changes) THEN ps
    ELSE LET from == changes[k][1]
             to == changes[k][2]
             i == getPieceByPosition(ps, from)
         IN applyGravity(
              IF i = 0 THEN ps
              ELSE [ps EXCEPT ![i] = animateFall([@ EXCEPT !.row = to.row,
                                                           !.column = to.column], "gravity")],
              changes, k + 1)) : ps \in {ps0}} : TRUE

\* the for loop of SlotProcess.refillGrid over the new positions
RECURSIVE refillGrid(_, _, _, _)
refillGrid(g, ps0, newPositions, k) ==
  CHOOSE out \in {(
    IF k > Len(newPositions) THEN ps
    ELSE LET pieceType == slotGetPieceType(g, newPositions[k])
             piece == NewPiece(newPositions[k], pieceType)
         IN refillGrid(g, Append(ps, animateFall(piece, "refill")), newPositions, k + 1)) : ps \in {ps0}} : TRUE

\* step 1 reading the round for the combo before bumping it
Step1StaleCombo(bounded) ==
  /\ QueueReady
  /\ Head(queue).kind = 1
  /\ bounded => round < MaxRound
  /\ \E r \in {IF round < MaxRound THEN round + 1 ELSE round} :
     \E stats \in {updateStats(grid, round, balance)} :
        /\ round' = r
        /\ balance' = IF stats.balance <= MaxBalance THEN stats.balance ELSE balance
        /\ emitted' = stats.emitted
  /\ queue' = Tail(queue)
  /\ lastStep' = Head(queue)
  /\ UNCHANGED <<board, playing, processing, paused, running, sess, enq, open, cancelled>>
  /\ call' = NoCall
  /\ clearing' = clearing

\* Step #1: bump the round and update the stats.  bounded: the round ceiling
\* MaxRound blocks the step; otherwise the step runs on and the two counters
\* stay at their ceilings, so that an endless session is an endless behaviour.
Step1(bounded) ==
  /\ QueueReady
  /\ Head(queue).kind = 1
  /\ bounded => round < MaxRound
  /\ \E r \in {IF round < MaxRound THEN round + 1 ELSE round} :
     \E stats \in {updateStats(grid, r, balance)} :
        /\ round' = r
        /\ balance' = IF stats.balance <= MaxBalance THEN stats.balance ELSE balance
        /\ emitted' = stats.emitted
  /\ queue' = Tail(queue)
  /\ lastStep' = Head(queue)
  /\ UNCHANGED <<board, playing, processing, paused, running, sess, enq, open, cancelled>>
  /\ call' = NoCall
  /\ clearing' = clearing

RunStep1 == Step1(TRUE)

\* the clear step without the await on processRegularMatches
RunStep2NoAwait ==
  /\ QueueReady
  /\ Head(queue).kind = 2
  /\ \E ps \in {processRegularMatches(grid, pieces,
                     slotGetMatches(grid, Omitted, DefaultMatchSize), 1)} :
        /\ pieces' = ps
        /\ running' = running
  /\ queue' = Tail(queue)
  /\ lastStep' = Head(queue)
  /\ emitted' = <<>>
  /\ UNCHANGED <<grid, playing, processing, round, balance, paused, sess, enq, open, cancelled>>
  /\ call' = NoCall
  /\ clearing' = MatchedPositions(grid)

\* Step #3 of the source: clear the matches, awaiting every jump
RunStep2 ==
  /\ QueueReady
  /\ Head(queue).kind = 2
  /\ \E ps \in {processRegularMatches(grid, pieces,
                     slotGetMatches(grid, Omitted, DefaultMatchSize), 1)} :
        /\ pieces' = ps
        /\ running' = IF ps # pieces THEN running \cup {Head(queue)} ELSE running
  /\ queue' = Tail(queue)
  /\ lastStep' = Head(queue)
  /\ emitted' = <<>>
  /\ UNCHANGED <<grid, playing, processing, round, balance, paused, sess, enq, open, cancelled>>
  /\ call' = NoCall
  /\ clearing' = MatchedPositions(grid)

\* the gravity step deferring its grid transform to a later turn: the step
\* returns with the grid and the pieces as they were
RunStep3Deferred ==
  /\ QueueReady
  /\ Head(queue).kind = 3
  /\ queue' = Tail(queue)
  /\ lastStep' = Head(queue)
  /\ emitted' = <<>>
  /\ UNCHANGED <<board, playing, processing, round, balance, paused, running,
                 sess, enq, open, cancelled>>
  /\ call' = NoCall
  /\ clearing' = clearing

\* Step #4 of the source: gravity, its falls not awaited
RunStep3 ==
  /\ QueueReady
  /\ Head(queue).kind = 3
  /\ \E res \in {slotApplyGravity(grid)} :
        /\ grid' = res.grid
        /\ pieces' = applyGravity(pieces, res.changes, 1)
  /\ running' = running
  /\ queue' = Tail(queue)
  /\ lastStep' = Head(queue)
  /\ emitted' = <<>>
  /\ UNCHANGED <<playing, processing, round, balance, paused, sess, enq, open, cancelled>>
  /\ call' = NoCall
  /\ clearing' = clearing

\* Step #5 of the source: refill, awaiting the fall of every new piece
RunStep4 ==
  /\ QueueReady
  /\ Head(queue).kind = 4
  /\ \E tempGrid \in FullGrids : \E res \in {slotFillUp(grid, tempGrid)} :
        /\ grid' = res.grid
        /\ pieces' = refillGrid(res.grid, pieces, res.newPositions, 1)
        /\ running' = IF Len(res.newPositions) > 0 THEN running \cup {Head(queue)}
                      ELSE running
  /\ queue' = Tail(queue)
  /\ lastStep' = Head(queue)
  /\ emitted' = <<>>
  /\ UNCHANGED <<playing, processing, round, balance, paused, sess, enq, open, cancelled>>
  /\ call' = NoCall
  /\ clearing' = clearing

\* processCheckpoint testing the empty cells only, not the matches
RunStep5IgnoresMatches ==
  /\ QueueReady
  /\ Head(queue).kind = 5
  /\ LET emptySpaces == slotGetEmptyPositions(grid)
         nextRound == IF enq <= MaxRound THEN enq + 1 ELSE enq
     IN IF Len(emptySpaces) > 0
          THEN /\ queue' = runProcessRound(Tail(queue), nextRound, sess)
               /\ enq' = nextRound
               /\ emitted' = <<>>
               /\ UNCHANGED <<processing, open, cancelled>>
          ELSE /\ stopEffect
               /\ enq' = enq
  /\ lastStep' = Head(queue)
  /\ UNCHANGED <<board, playing, round, balance, paused, running, sess>>
  /\ call' = NoCall
  /\ clearing' = clearing

\* Step #6 of the source: processCheckpoint
RunStep5 ==
  /\ QueueReady
  /\ Head(queue).kind = 5
  /\ LET newMatches == slotGetMatches(grid, Omitted, DefaultMatchSize)
         emptySpaces == slotGetEmptyPositions(grid)
         nextRound == IF enq <= MaxRound THEN enq + 1 ELSE enq
     IN IF Len(newMatches) > 0 \/ Len(emptySpaces) > 0
          THEN /\ queue' = runProcessRound(Tail(queue), nextRound, sess)
               /\ enq' = nextRound
               /\ emitted' = <<>>
               /\ UNCHANGED <<processing, open, cancelled>>
          ELSE /\ stopEffect
               /\ enq' = enq
  /\ lastStep' = Head(queue)
  /\ UNCHANGED <<board, playing, round, balance, paused, running, sess>>
  /\ call' = NoCall
  /\ clearing' = clearing

\* the tween of animateJump of piece i ends: jumpPiece disposes the piece,
\* and the clear step returns once no jump is left
JumpDone(i) ==
  /\ i \in 1 .. Len(pieces)
  /\ pieces[i].jump
  /\ \E ps \in {disposePiece(pieces, i)} :
        /\ pieces' = ps
        /\ running' = IF \E k \in 1 .. Len(ps) : ps[k].jump THEN running
                      ELSE {s \in running : s.kind # 2}
  /\ emitted' = <<>>
  /\ UNCHANGED <<grid, playing, processing, round, balance, queue, paused, history>>
  /\ call' = NoCall
  /\ clearing' = clearing

\* the tween of animateFall of piece i ends: the piece unlocks, and the
\* refill step returns once none of its falls is left
FallDone(i) ==
  /\ i \in 1 .. Len(pieces)
  /\ pieces[i].fall # "none"
  /\ \E ps \in {[pieces EXCEPT ![i].fall = "none", ![i].locked = FALSE]} :
        /\ pieces' = ps
        /\ running' = IF \E k \in 1 .. Len(ps) : ps[k].fall = "refill" THEN running
                      ELSE {s \in running : s.kind # 4}
  /\ emitted' = <<>>
  /\ UNCHANGED <<grid, playing, processing, round, balance, queue, paused, history>>
  /\ call' = NoCall
  /\ clearing' = clearing

JumpEnds == \E i \in 1 .. Len(pieces) : JumpDone(i)
FallEnds == \E i \in 1 .. Len(pieces) : FallDone(i)

Next ==
  \/ start
  \/ stop
  \/ reset
  \/ pause
  \/ resume
  \/ setPlaying
  \/ SpinRequest
  \/ RunStep1
  \/ RunStep2
  \/ RunStep3
  \/ RunStep4
  \/ RunStep5
  \/ JumpEnds
  \/ FallEnds

Spec == Init /\ [][Next]_vars

(* ------------------- an uninterrupted session -------------------------- *)
\* start() and then only the queue and the tweens act: nobody stops, resets
\* or pauses the processor, every tween ends and the queue keeps consuming.
RunStep1Unbounded == Step1(FALSE)

ConvergeNext ==
  \/ start
  \/ RunStep1Unbounded
  \/ RunStep2
  \/ RunStep3
  \/ RunStep4
  \/ RunStep5
  \/ JumpEnds
  \/ FallEnds

ConvergeSpec ==
  /\ Init
  /\ [][ConvergeNext]_vars
  /\ WF_vars(RunStep1Unbounded)
  /\ WF_vars(RunStep2)
  /\ WF_vars(RunStep3)
  /\ WF_vars(RunStep4)
  /\ WF_vars(RunStep5)
  /\ WF_vars(JumpEnds)
  /\ WF_vars(FallEnds)

(* ------------------- the grid functions on their own ------------------- *)
\* A caller holds a grid and calls one exported function of the SlotUtility
\* section on it; call records the call: the grid before it, its arguments
\* and what it returned.
GridShapes == {sh \in (1 .. GridSide) \X (1 .. GridSide) : sh[1] * sh[2] <= MaxCells}
UtilityGrids ==
  UNION {[0 .. (sh[1] - 1) -> [0 .. (sh[2] - 1) -> 0 .. NumTypes]] : sh \in GridShapes}
\* the positions of the grid and those one step outside it
ArgPositions(g) == {Pos(r, c) : r \in -1 .. GridRows(g), c \in -1 .. GridColumns(g)}
CellPositions(g) == {Pos(r, c) : r \in DOMAIN g, c \in DOMAIN g[0]}
FilterLists(g) == UNION {[1 .. n -> CellPositions(g)] : n \in 0 .. MaxFilter}
TypeLists == UNION {[1 .. n -> commonTypes] : n \in 1 .. MaxTypeList}

UtilityInit ==
  /\ grid \in UtilityGrids
  /\ pieces = <<>>
  /\ playing = TRUE
  /\ processing = FALSE
  /\ round = 0
  /\ balance = 0
  /\ queue = <<>>
  /\ paused = FALSE
  /\ running = {}
  /\ emitted = <<>>
  /\ sess = 0
  /\ enq = 0
  /\ open = FALSE
  /\ cancelled = 0
  /\ lastStep = NoStep
  /\ call = NoCall
  /\ clearing = {}

CallSwapPieces ==
  /\ call = NoCall
  /\ \E positionA, positionB \in ArgPositions(grid) :
        /\ grid' = match3SwapPieces(grid, positionA, positionB)
        /\ call' = [fn |-> "match3SwapPieces", before |-> grid,
                    positionA |-> positionA, positionB |-> positionB]
  /\ UNCHANGED <<pieces, playing, processing, round, balance, queue, paused,
                 running, emitted, history, clearing>>

CallApplyGravity ==
  /\ call = NoCall
  /\ \E res \in {slotApplyGravity(grid)} :
        /\ grid' = res.grid
        /\ call' = [fn |-> "slotApplyGravity", before |-> grid, changes |-> res.changes]
  /\ UNCHANGED <<pieces, playing, processing, round, balance, queue, paused,
                 running, emitted, history, clearing>>

CallFillUp ==
  /\ call = NoCall
  /\ \E types \in TypeLists :
     \E tempGrid \in match3CreateGrid(GridRows(grid), GridColumns(grid), types) :
     \E res \in {slotFillUp(grid, tempGrid)} :
        /\ grid' = res.grid
        /\ call' = [fn |-> "slotFillUp", before |-> grid, types |-> types,
                    newPositions |-> res.newPositions]
  /\ UNCHANGED <<pieces, playing, processing, round, balance, queue, paused,
                 running, emitted, history, clearing>>

CallGetMatches ==
  /\ call = NoCall
  /\ \E filter \in {Omitted} \cup {Given(f) : f \in FilterLists(grid)} :
     \E matchSize \in 1 .. MaxMatchSize :
        call' = [fn |-> "slotGetMatches", before |-> grid, filter |-> filter,
                 matchSize |-> matchSize,
                 matches |-> slotGetMatches(grid, filter, matchSize)]
  /\ UNCHANGED <<grid, pieces, playing, processing, round, balance, queue, paused,
                 running, emitted, history, clearing>>

UtilityNext ==
  \/ CallSwapPieces
  \/ CallApplyGravity
  \/ CallFillUp
  \/ CallGetMatches

UtilitySpec == UtilityInit /\ [][UtilityNext]_vars

(* ------------------------------ claims --------------------------------- *)
Settled ==
  /\ Len(slotGetMatches(grid, Omitted, DefaultMatchSize)) = 0
  /\ Len(slotGetEmptyPositions(grid)) = 0

\* C1: round convergence.  Once start() is accepted and every awaited tween
\* ends, the processor eventually is idle again (processing false) on a grid
\* with no match and no empty cell.
C1_RoundConvergence == processing ~> (~processing /\ Settled)


(* ---------------- vocabulary of the processor claims ------------------- *)
\* a queued step begins in this transition (step tags are unique in Spec)
Begins == lastStep' # lastStep
\* the queued step t returns in this transition
Returns(t) ==
  \/ t \in running /\ t \notin running'
  \/ Begins /\ lastStep' = t /\ t \notin running'
Fired(e) == \E i \in 1 .. Len(emitted') : emitted'[i] = e
JumpPending(ps) == \E i \in 1 .. Len(ps) : ps[i].jump
FallPending(ps, by) == \E i \in 1 .. Len(ps) : ps[i].fall = by
IsMatchEvent(e) == e.type = "match"
RoundSteps(n, s) == <<Step(1, n, s), Step(2, n, s), Step(3, n, s), Step(4, n, s), Step(5, n, s)>>
SomeStep == {Step(k, n, s) : k \in 1 .. 5, n \in 1 .. (MaxRound + 1), s \in 1 .. MaxSession}

\* C2: within a round the five steps begin in the order 1, 2, 3, 4, 5, a
\* step begins only when no step is executing, the clear step (2) and the
\* refill step (4) return only with none of their tweens pending, and the
\* gravity step (3) returns at once, whatever falls it started.
C2_StepOrder ==
  [][ /\ Begins =>
           /\ running = {}
           /\ lastStep'.kind > 1 =>
                lastStep = Step(lastStep'.kind - 1, lastStep'.rnd, lastStep'.sess)
           /\ lastStep'.kind = 1 =>
                \/ lastStep'.rnd = 1
                \/ lastStep = Step(5, lastStep'.rnd - 1, lastStep'.sess)
           /\ lastStep'.kind = 3 => Returns(lastStep')
      /\ \A t \in SomeStep :
           Returns(t) => /\ t.kind = 2 => ~JumpPending(pieces')
                         /\ t.kind = 4 => ~FallPending(pieces', "refill")
    ]_vars

\* the refill step is executing while a fall started by the gravity step of
\* the same round is still pending
C2_Witness ==
  /\ lastStep.kind = 4
  /\ lastStep \in running
  /\ FallPending(pieces, "gravity")
  /\ FallPending(pieces, "refill")

\* C3: the queue never holds steps of two rounds, the steps of the first
\* round are enqueued by an accepted start() and those of round n+1 by the
\* checkpoint of round n, and step 1 of round n+1 begins only after that
\* checkpoint.
C3_RoundEnqueue ==
  [][ /\ \A i, j \in 1 .. Len(queue') :
           queue'[i].rnd = queue'[j].rnd /\ queue'[i].sess = queue'[j].sess
      /\ \A i \in 1 .. Len(queue') :
           (\A j \in 1 .. Len(queue) : queue[j] # queue'[i]) =>
              \/ queue'[i].rnd = 1 /\ emitted' = <<ProcessStart>>
              \/ /\ queue'[i].rnd > 1
                 /\ Begins
                 /\ lastStep' = Step(5, queue'[i].rnd - 1, queue'[i].sess)
      /\ (Begins /\ lastStep'.rnd > 1 /\ lastStep'.kind = 1) =>
           lastStep = Step(5, lastStep'.rnd - 1, lastStep'.sess)
    ]_vars

\* the checkpoint of round 1 has just enqueued the five steps of round 2
C3_Witness ==
  /\ lastStep.kind = 5
  /\ lastStep.rnd = 1
  /\ queue = RoundSteps(2, sess)

\* C4: at most one queued step is executing.
C4_OneStepExecuting == Cardinality(running) <= 1

\* a step of a session that was reset is still executing while the steps of
\* the next session wait in the queue
C4_Witness ==
  /\ \E t \in running : t.sess < sess
  /\ processing
  /\ Len(queue) = 5

\* C5: start() changes nothing and fires nothing while processing or while
\* the game is not playing; otherwise it sets processing, zeroes the round,
\* fires process-start and enqueues the five steps of the first round.
C5_Start ==
  [][ start =>
        IF processing \/ ~playing
          THEN /\ UNCHANGED <<round, queue, processing>>
               /\ emitted' = <<>>
          ELSE /\ processing'
               /\ round' = 0
               /\ emitted' = <<ProcessStart>>
               /\ Len(queue') = 5
               /\ \A k \in 1 .. 5 : queue'[k].kind = k
    ]_vars

\* a second session has been started, its five steps are queued
C5_Witness ==
  /\ sess = 2
  /\ emitted = <<ProcessStart>>
  /\ processing
  /\ round = 0
  /\ Len(queue) = 5

\* C6: stop() changes nothing and fires nothing when processing is false;
\* otherwise it clears processing, empties the queue and fires exactly one
\* process-complete, so that a stop() right after it fires nothing.
C6_Stop ==
  [][ stop =>
        IF ~processing
          THEN /\ UNCHANGED <<board, playing, processing, round, balance, queue,
                              paused, running>>
               /\ emitted' = <<>>
          ELSE /\ ~processing'
               /\ queue' = <<>>
               /\ emitted' = <<ProcessComplete>>
    ]_vars

\* stop() was called while a step was executing
C6_Witness ==
  /\ emitted = <<ProcessComplete>>
  /\ running # {}
  /\ ~processing
  /\ queue = <<>>

\* C7: process-start fires only with no session open and is alone in its
\* operation, every step that begins belongs to the session whose
\* process-start fired last, and process-complete fires only for an open
\* session, once.
C7_SessionEvents ==
  [][ /\ Fired(ProcessStart) =>
           /\ ~open
           /\ emitted' = <<ProcessStart>>
           /\ sess' = sess + 1
      /\ sess' # sess => Fired(ProcessStart)
      /\ Fired(ProcessComplete) =>
           /\ open
           /\ ~open'
           /\ emitted' = <<ProcessComplete>>
      /\ Begins => open /\ lastStep'.sess = sess
    ]_vars

\* the second process-start, after the first session was stopped or reset
C7_Witness ==
  /\ emitted = <<ProcessStart>>
  /\ sess = 2
  /\ cancelled = 1
  /\ open

\* C8: step 1 of the k-th round of a session bumps the round by one to k and
\* fires one match notification carrying the matches of the grid and combo k
\* when the grid has a match, none otherwise; no other operation fires a
\* match notification, and the round only changes there or to 0.
C8_MatchCombo ==
  [][ /\ (Begins /\ lastStep'.kind = 1) =>
           /\ round' = round + 1
           /\ round' = lastStep'.rnd
           /\ emitted' =
                IF Len(slotGetMatches(grid, Omitted, DefaultMatchSize)) > 0
                  THEN <<Match(slotGetMatches(grid, Omitted, DefaultMatchSize),
                               lastStep'.rnd)>>
                  ELSE <<>>
      /\ (\E i \in 1 .. Len(emitted') : IsMatchEvent(emitted'[i])) =>
           Begins /\ lastStep'.kind = 1
      /\ round' # round => \/ Begins /\ lastStep'.kind = 1
                           \/ round' = 0
    ]_vars

\* the second round of a session has fired its match notification
C8_Witness ==
  /\ Len(emitted) = 1
  /\ IsMatchEvent(emitted[1])
  /\ emitted[1].combo = 2
  /\ lastStep.rnd = 2

\* C9: pause() and resume() leave the queue, the round and the processing
\* flag alone, no step begins while the queue is paused, and a step that
\* begins is the oldest step of the queue.
C9_PauseResume ==
  [][ /\ (pause \/ resume) => UNCHANGED <<queue, round, processing>>
      /\ Begins => ~paused /\ lastStep' = Head(queue)
    ]_vars

\* the queue is paused with steps waiting and no step executing
C9_Witness ==
  /\ paused
  /\ processing
  /\ running = {}
  /\ Len(queue) = 3

\* C10: reset() clears processing, empties the queue and fires nothing; it
\* leaves the executing step and the board alone, and no step of a session
\* whose queue was cleared begins afterwards.
C10_Reset ==
  [][ /\ reset =>
           /\ ~processing'
           /\ queue' = <<>>
           /\ emitted' = <<>>
           /\ UNCHANGED <<running, board>>
      /\ Begins => lastStep'.sess > cancelled
    ]_vars

\* reset() was called while the clear step was waiting for its jumps
C10_Witness ==
  /\ ~processing
  /\ round = 0
  /\ cancelled = sess
  /\ \E t \in running : t.kind = 2 /\ t.sess = sess
  /\ queue = <<>>

(* ------------------------- the move request ---------------------------- *)
BoundAt(i, position) ==
  pieces[i].row = position.row /\ pieces[i].column = position.column

\* a precondition of the move request fails for the origin `from`
SpinPreconditionFails(from) ==
  \/ ~playing
  \/ ~\E i \in 1 .. Len(pieces) : BoundAt(i, from)
  \/ \E i \in 1 .. Len(pieces) : BoundAt(i, from) /\ pieces[i].locked
  \/ slotGetPieceType(grid, from) = Undefined

\* C11: a move request made while the game is not playing, or with no piece
\* bound to `from`, or with that piece locked, or with no grid type at `from`,
\* leaves the grid, the pieces, the processing flag, the round and the queue
\* unchanged and fires no notification.
C11_SpinRefused ==
  [][ \A from \in SpinPositions : \A to \in {Pos(from.row, from.column + 1)} :
        (actionSpin(from, to) /\ SpinPreconditionFails(from)) =>
           /\ UNCHANGED <<grid, pieces, processing, round, queue>>
           /\ emitted' = <<>>
    ]_vars

\* a move request on a locked piece was refused while the processor was idle
\* and the game playing, when start() would have been accepted
C11_Witness ==
  /\ call = SpinRefused("locked")
  /\ playing
  /\ ~processing
  /\ sess < MaxSession

(* --------------------------- the piece set ----------------------------- *)
\* C20: no two pieces of the active set are bound to the same row and column.
C20_UniquePositions ==
  \A i, j \in 1 .. Len(pieces) :
     i # j => ~(pieces[i].row = pieces[j].row /\ pieces[i].column = pieces[j].column)

\* a piece created by the refill falls into the cell a piece left by gravity,
\* whose fall is still pending
C20_Witness ==
  \E i, j \in 1 .. Len(pieces) :
     /\ pieces[i].fall = "refill"
     /\ pieces[j].fall = "gravity"
     /\ pieces[i].column = pieces[j].column
     /\ pieces[i].row < pieces[j].row

(* ------------------------- the grid functions -------------------------- *)
InBounds(g, position) ==
  /\ position.row >= 0 /\ position.row < GridRows(g)
  /\ position.column >= 0 /\ position.column < GridColumns(g)
EmptyCells(g) == {position \in CellPositions(g) : g[position.row][position.column] = 0}
\* position p comes before position q in the row-major scan
ScansBefore(p, q) == p.row < q.row \/ (p.row = q.row /\ p.column < q.column)
\* the non-empty values of column c of g, top to bottom
ColumnValues(g, c) ==
  LET IsType(v) == v # 0
  IN SelectSeq([k \in 1 .. GridRows(g) |-> g[k - 1][c]], IsType)
\* no column of g has an empty cell below an occupied cell
GravitySettled(g) ==
  \A c \in DOMAIN g[0] : \A r1, r2 \in DOMAIN g :
     (r1 < r2 /\ g[r1][c] # 0) => g[r2][c] # 0

\* C12: match3SwapPieces leaves the grid unchanged when a or b is out of
\* bounds; otherwise it exchanges the two cells, leaves every other cell
\* unchanged, and a second swap of the same cells restores the grid.
C12_SwapSafety ==
  call.fn = "match3SwapPieces" =>
    LET g0 == call.before
        a == call.positionA
        b == call.positionB
    IN IF ~InBounds(g0, a) \/ ~InBounds(g0, b)
         THEN grid = g0
         ELSE /\ grid[a.row][a.column] = g0[b.row][b.column]
              /\ grid[b.row][b.column] = g0[a.row][a.column]
              /\ \A p \in CellPositions(g0) :
                    (p # a /\ p # b) => grid[p.row][p.column] = g0[p.row][p.column]
              /\ DOMAIN grid = DOMAIN g0
              /\ match3SwapPieces(grid, a, b) = g0

\* two cells of different rows, columns and values were swapped
C12_Witness ==
  /\ call.fn = "match3SwapPieces"
  /\ InBounds(call.before, call.positionA)
  /\ InBounds(call.before, call.positionB)
  /\ call.positionA.row # call.positionB.row
  /\ call.positionA.column # call.positionB.column
  /\ grid # call.before

\* C13: on a grid in which no column has an empty cell below an occupied
\* cell, slotApplyGravity returns an empty change list and leaves the grid
\* unchanged.
C13_GravityIdempotence ==
  (call.fn = "slotApplyGravity" /\ GravitySettled(call.before)) =>
     /\ call.changes = <<>>
     /\ grid = call.before

\* C14: after slotApplyGravity every column has its non-empty cells below its
\* empty cells, and its non-empty values top to bottom are those of before.
C14_GravityCompacts ==
  call.fn = "slotApplyGravity" =>
     /\ GravitySettled(grid)
     /\ DOMAIN grid = DOMAIN call.before
     /\ \A c \in DOMAIN grid[0] : ColumnValues(grid, c) = ColumnValues(call.before, c)

\* in a grid of three rows a piece fell by two rows, and two pieces of
\* different types stacked over an empty cell fell by one row
C14_Witness ==
  /\ call.fn = "slotApplyGravity"
  /\ GridRows(call.before) = 3
  /\ \E c \in DOMAIN grid[0] :
        /\ call.before[0][c] # 0
        /\ call.before[1][c] = 0
        /\ call.before[2][c] = 0
        /\ grid[2][c] = call.before[0][c]
  /\ \E c \in DOMAIN grid[0] :
        /\ call.before[0][c] # 0
        /\ call.before[1][c] # 0
        /\ call.before[0][c] # call.before[1][c]
        /\ call.before[2][c] = 0

\* C15: after slotFillUp with a non-empty list of positive type codes no cell
\* is empty, and as many positions are returned as cells were empty before.
C15_FillCompleteness ==
  call.fn = "slotFillUp" =>
     /\ EmptyCells(grid) = {}
     /\ Len(call.newPositions) = Cardinality(EmptyCells(call.before))

\* a grid with empty cells in its last row was filled from a list of two types
C15_Witness ==
  /\ call.fn = "slotFillUp"
  /\ Len(call.types) = 2
  /\ call.types[1] # call.types[2]
  /\ \E p \in EmptyCells(call.before) : p.row = GridRows(call.before) - 1
  /\ Cardinality(EmptyCells(call.before)) >= 2

\* C16: slotFillUp returns the positions that were empty before the call, each
\* once, a position scanned later coming first, and leaves the cells that were
\* not empty unchanged.
C16_FillOrder ==
  call.fn = "slotFillUp" =>
    LET new == call.newPositions
    IN /\ {new[i] : i \in 1 .. Len(new)} = EmptyCells(call.before)
       /\ \A i, j \in 1 .. Len(new) : i < j => ScansBefore(new[j], new[i])
       /\ \A p \in CellPositions(call.before) :
             call.before[p.row][p.column] # 0 =>
                grid[p.row][p.column] = call.before[p.row][p.column]

\* empty cells of two rows and two columns were filled next to a cell that
\* was not empty
C16_Witness ==
  /\ call.fn = "slotFillUp"
  /\ \E p, q \in EmptyCells(call.before) : p.row # q.row /\ p.column # q.column
  /\ \E p, q \in EmptyCells(call.before) : p.row = q.row /\ p.column # q.column
  /\ EmptyCells(call.before) # CellPositions(call.before)

\* C17: every match slotGetMatches returns has at least matchSize positions,
\* all of one row or of one column, all holding the same type code, which is
\* not 0, and contiguous along that row or column.
C17_MatchShape ==
  call.fn = "slotGetMatches" =>
    \A k \in 1 .. Len(call.matches) :
      LET match == call.matches[k]
          g == call.before
      IN /\ Len(match) >= call.matchSize
         /\ \A i \in 1 .. Len(match) :
               /\ InBounds(g, match[i])
               /\ g[match[i].row][match[i].column] # 0
               /\ g[match[i].row][match[i].column] = g[match[1].row][match[1].column]
         /\ \/ \A i \in 1 .. Len(match) :
                  /\ match[i].row = match[1].row
                  /\ match[i].column = match[1].column + (i - 1)
            \/ \A i \in 1 .. Len(match) :
                  /\ match[i].column = match[1].column
                  /\ match[i].row = match[1].row + (i - 1)

\* C19: with a filter list, slotGetMatches returns the matches of the
\* unfiltered result that hold a position of the filter list, each once and in
\* the unfiltered order; with an empty filter list it returns no match.
C19_FilterMatches ==
  (call.fn = "slotGetMatches" /\ call.filter # Omitted) =>
    LET filter == call.filter[1]
        Touches(match) == \E i \in 1 .. Len(match) : \E j \in 1 .. Len(filter) :
                             match[i].row = filter[j].row /\ match[i].column = filter[j].column
        unfiltered == slotGetMatches(call.before, Omitted, call.matchSize)
    IN /\ call.matches = SelectSeq(unfiltered, Touches)
       /\ filter = <<>> => call.matches = <<>>

\* of the two matches of a grid, the filter list kept the second, which it
\* touches in a position that is not the last of the match
C19_Witness ==
  /\ call.fn = "slotGetMatches"
  /\ call.filter # Omitted
  /\ Len(slotGetMatches(call.before, Omitted, call.matchSize)) = 2
  /\ Len(call.matches) = 1
  /\ call.matches[1] = slotGetMatches(call.before, Omitted, call.matchSize)[2]
  /\ call.matchSize = DefaultMatchSize

(* ------------------- claims on the board and the session ------------------ *)
\* the pieces mirror the grid: one piece bound to each non-empty cell, and
\* every piece of the type of the cell it is bound to
PiecesMirrorGrid ==
  /\ \A position \in CellPositions(grid) :
        slotGetPieceType(grid, position) # 0 =>
           Cardinality({i \in 1 .. Len(pieces) : BoundAt(i, position)}) = 1
  /\ \A i \in 1 .. Len(pieces) :
        pieces[i].type = slotGetPieceType(grid, Pos(pieces[i].row, pieces[i].column))

\* C21: pieces mirror the grid one to one.  In every state in which no queue
\* step is executing, every non-empty grid cell has exactly one piece bound
\* to its position and every piece's type is the grid's type at its position.
C21_PiecesMirrorGrid == running = {} => PiecesMirrorGrid

(* ------------------------ the board setup on its own --------------------- *)
slotValidModes == <<"normal", "free_spins">>

blocks ==
  [normal |-> <<"piece-dragon", "piece-frog", "piece-newt", "piece-snake", "piece-spider">>,
   free_spins |-> <<"special-blast", "special-row", "special-column", "special-colour">>]

\* [...blocks[mode], ...blocks.normal]
slotGetBlocks(mode) == blocks[mode] \o blocks.normal

\* the loop of setup over the block names: type i + 1 for blocks[i], pushed
\* on commonTypes (empty on a new board) and entered in typesMap
SetupTypes(names) ==
  [commonTypes |-> [i \in 1 .. Len(names) |-> i],
   typesMap |-> [type \in 1 .. Len(names) |-> names[type]]]

\* the configurations setup is called with
SetupConfigs ==
  {config \in [rows : 1 .. MaxSetupCells, columns : 1 .. MaxSetupCells,
               mode : {slotValidModes[k] : k \in 1 .. Len(slotValidModes)}] :
      config.rows * config.columns <= MaxSetupCells}

\* the board as constructed: no grid, no piece
SetupInit ==
  /\ grid = <<>>
  /\ pieces = <<>>
  /\ playing = TRUE
  /\ processing = FALSE
  /\ round = 0
  /\ balance = 0
  /\ queue = <<>>
  /\ paused = FALSE
  /\ running = {}
  /\ emitted = <<>>
  /\ sess = 0
  /\ enq = 0
  /\ open = FALSE
  /\ cancelled = 0
  /\ lastStep = NoStep
  /\ call = NoCall
  /\ clearing = {}

\* SlotBoard.setup(config) on the board as constructed; call records the
\* mode and the commonTypes and typesMap fields the call leaves
setup(config) ==
  /\ call = NoCall
  /\ \E types \in {SetupTypes(slotGetBlocks(config.mode))} :
     \E g \in match3CreateGrid(config.rows, config.columns, types.commonTypes) :
        /\ grid' = g
        /\ pieces' = SetupPieces(g, ScanOrder(g), 1, <<>>)
        /\ call' = [fn |-> "setup", config |-> config,
                    commonTypes |-> types.commonTypes, typesMap |-> types.typesMap]
  /\ UNCHANGED <<playing, processing, round, balance, queue, paused,
                 running, emitted, history, clearing>>

CallSetup == \E config \in SetupConfigs : setup(config)

SetupSpec == SetupInit /\ [][CallSetup]_vars

\* the kind names the claim gives a mode: the normal list, followed by the
\* additions of the mode when it is not the normal mode
NormalThenAdditions(mode) ==
  IF mode = "normal" THEN blocks.normal ELSE blocks.normal \o blocks[mode]

\* C22: after setup(config), for every game mode, the type map assigns code
\* i + 1 to the i-th name of the kind list, that list is the normal list
\* followed by the additions of the mode, and no two codes map to one name.
C22_TypeCodes ==
  call.fn = "setup" =>
     /\ DOMAIN call.typesMap = 1 .. Len(NormalThenAdditions(call.config.mode))
     /\ \A type \in DOMAIN call.typesMap :
           call.typesMap[type] = NormalThenAdditions(call.config.mode)[type]
     /\ \A a, b \in DOMAIN call.typesMap :
           a # b => call.typesMap[a] # call.typesMap[b]

\* C23: grid well-formedness.  After setup and after any sequence of
\* processing steps (gravity and refill included) the grid has the configured
\* number of rows, every row the configured number of columns, and every
\* cell holds 0 or one of the configured type codes.
C23_GridWellFormed ==
  /\ DOMAIN grid = RowIdx
  /\ \A r \in RowIdx :
        /\ DOMAIN grid[r] = ColIdx
        /\ \A c \in ColIdx : grid[r][c] = 0 \/ grid[r][c] \in commonTypes

\* the refill step of a round has returned on a grid it left full, after a
\* gravity step that moved a piece
C23_Witness ==
  /\ lastStep.kind = 4
  /\ lastStep \notin running
  /\ FallPending(pieces, "gravity")
  /\ EmptyCells(grid) = {}

\* one call of a grid function leaves the shape of the grid as it was and
\* writes only values the grid held or type codes of the list it was given
CallKeepsGridWellFormed ==
  call.fn \in {"match3SwapPieces", "slotApplyGravity", "slotFillUp"} =>
     /\ DOMAIN grid = DOMAIN call.before
     /\ \A r \in DOMAIN grid :
           /\ DOMAIN grid[r] = DOMAIN call.before[r]
           /\ \A c \in DOMAIN grid[r] : grid[r][c] \in 0 .. NumTypes

\* the maximal runs of row r of g: columns c1 .. c2 holding one type code
\* that is not 0, with another value or the end of the row on either side
MaximalRuns(g) ==
  {run \in (DOMAIN g) \X (DOMAIN g[0]) \X (DOMAIN g[0]) :
     LET r == run[1]
         c1 == run[2]
         c2 == run[3]
     IN /\ c1 <= c2
        /\ g[r][c1] # 0
        /\ \A c \in c1 .. c2 : g[r][c] = g[r][c1]
        /\ c1 = 0 \/ g[r][c1 - 1] # g[r][c1]
        /\ c2 = GridColumns(g) - 1 \/ g[r][c2 + 1] # g[r][c1]}
\* the positions of a run, left to right
RunPositions(run) == [i \in 1 .. (run[3] - run[2] + 1) |-> Pos(run[1], run[2] + i - 1)]
RunsOfSize(g, matchSize) ==
  {run \in MaximalRuns(g) : Len(RunPositions(run)) >= matchSize}

\* C24: for every grid and matchSize >= 1, slotGetMatches without a filter
\* returns exactly the maximal row-aligned runs of equal non-zero type codes
\* of length >= matchSize: each such run once, its positions left to right,
\* no other list, ordered by row and then by starting column.
C24_MaximalRuns ==
  (call.fn = "slotGetMatches" /\ call.filter = Omitted) =>
    LET runs == RunsOfSize(call.before, call.matchSize)
        matches == call.matches
    IN /\ \A k \in 1 .. Len(matches) : \E run \in runs : matches[k] = RunPositions(run)
       /\ \A run \in runs :
             Cardinality({k \in 1 .. Len(matches) : matches[k] = RunPositions(run)}) = 1
       /\ \A j, k \in 1 .. Len(matches) :
             j < k => ScansBefore(matches[j][1], matches[k][1])

\* the row in which the non-empty cell p of g comes to rest: the last row,
\* less the non-empty cells below p in its column
RestingRow(g, p) ==
  GridRows(g) - 1 - Cardinality({r \in DOMAIN g : r > p.row /\ g[r][p.column] # 0})
\* the cell p of g holds a piece that gravity moves
Moves(g, p) == g[p.row][p.column] # 0 /\ RestingRow(g, p) # p.row

\* C25: the change list of slotApplyGravity records real moves only.  Every
\* pair [from, to] has `to` in the column of `from` and strictly below it, with
\* the value at `to` after the call that of `from` before it; every non-empty
\* cell that comes to rest elsewhere is the `from` of exactly one pair; a cell
\* that did not move is the `from` of no pair.
C25_RealMoves ==
  call.fn = "slotApplyGravity" =>
    LET g == call.before
        changes == call.changes
    IN /\ \A k \in 1 .. Len(changes) :
             LET from == changes[k][1]
                 to == changes[k][2]
             IN /\ to.column = from.column
                /\ to.row > from.row
                /\ InBounds(g, to)
                /\ grid[to.row][to.column] = g[from.row][from.column]
       /\ \A p \in CellPositions(g) :
             Cardinality({k \in 1 .. Len(changes) : changes[k][1] = p})
                = IF Moves(g, p) THEN 1 ELSE 0

\* C26: the clear step clears all matched positions.  When step 2 of a round
\* returns, every position that belonged to a match when the step began is
\* empty in the grid and has no piece bound to it, and no jump the step
\* started is still pending.
C26_ClearStep ==
  [][\A t \in SomeStep :
        (Returns(t) /\ t.kind = 2) =>
           /\ ~JumpPending(pieces')
           /\ \A position \in clearing' :
                 /\ slotGetPieceType(grid', position) = 0
                 /\ getPieceByPosition(pieces', position) = 0]_vars

\* C27: the checkpoint decides on the grid as it is when step 5 runs.  It
\* stops the processor, firing process-complete, if and only if the grid has
\* no match and no empty cell; otherwise it enqueues exactly one further
\* round of five steps and leaves processing true.
C27_Checkpoint ==
  [][(Begins /\ lastStep'.kind = 5) =>
        IF Settled
          THEN /\ ~processing'
               /\ emitted' = <<ProcessComplete>>
               /\ queue' = <<>>
          ELSE /\ processing'
               /\ emitted' = <<>>
               /\ \E n \in 1 .. (MaxRound + 1) :
                     queue' = Tail(queue) \o RoundSteps(n, lastStep'.sess)]_vars

\* a checkpoint found the grid without match and full, and stopped
C27_Witness ==
  /\ lastStep.kind = 5
  /\ emitted = <<ProcessComplete>>
  /\ Settled
  /\ ~processing

\* every precondition of the move request holds for the origin `from`
SpinPreconditionsHold(from) ==
  /\ playing
  /\ \E i \in 1 .. Len(pieces) : BoundAt(i, from) /\ ~pieces[i].locked
  /\ ~\E i \in 1 .. Len(pieces) : BoundAt(i, from) /\ pieces[i].locked
  /\ slotGetPieceType(grid, from) \notin {Undefined, 0}

C29_GravityBeforeRefill ==
  [][(Begins /\ lastStep'.kind = 4) =>
        /\ lastStep = Step(3, lastStep'.rnd, lastStep'.sess)
        /\ GravitySettled(grid)
        /\ \A i \in 1 .. Len(pieces) :
              pieces[i].fall = "gravity" =>
                 slotGetPieceType(grid, Pos(pieces[i].row, pieces[i].column)) # 0
        /\ \A position \in CellPositions(grid) :
              slotGetPieceType(grid, position) # 0 =>
                 slotGetPieceType(grid', position) = slotGetPieceType(grid, position)
        /\ Len(pieces') = Len(pieces) + Cardinality(EmptyCells(grid))
        /\ \A i \in 1 .. Len(pieces) : pieces'[i] = pieces[i]
        /\ \A i \in (Len(pieces) + 1) .. Len(pieces') :
              /\ Pos(pieces'[i].row, pieces'[i].column) \in EmptyCells(grid)
              /\ getPieceByPosition(pieces, Pos(pieces'[i].row, pieces'[i].column)) = 0]_vars

\* refill began while the gravity fall of a piece was pending, and created
\* a piece in the cell that piece had left, filling the grid
C29_Witness ==
  /\ lastStep.kind = 4
  /\ EmptyCells(grid) = {}
  /\ \E i, j \in 1 .. Len(pieces) :
        /\ pieces[i].fall = "gravity"
        /\ pieces[j].fall = "refill"
        /\ pieces[j].column = pieces[i].column
        /\ pieces[j].row + 1 = pieces[i].row

====
